---- MODULE Spec2Model ----
(***************************************************************************)
(* Model of class Message (headers/message.hpp): a fixed-capacity frame    *)
(* made of a 4-byte ASCII length header and a body of at most 512 bytes.   *)
(*                                                                         *)
(* Bytes are their integer codes (char as an unsigned code 0..255).        *)
(* A size_t is 64 bits wide; it is kept as four 16-bit limbs, least        *)
(* significant first, so that the conversions int <-> size_t of the code   *)
(* keep their width.                                                       *)
(***************************************************************************)
EXTENDS Integers, Sequences, FiniteSets, TLC

\* enum { maxBytes = 512 }
maxBytes == 512

\* enum { header = 4 }
header == 4

\* sizeof(data): char data[header + maxBytes]
Capacity == header + maxBytes

(***************************************************************************)
(* Bounds of the model's inputs.                                           *)
(***************************************************************************)
\* payload lengths 0..SmallLen are drawn, besides those around maxBytes
SmallLen == 0
\* number of byte patterns a payload of a given length is drawn from
NumPatterns == 1

(***************************************************************************)
(* 64-bit size_t arithmetic on 16-bit limbs.                               *)
(***************************************************************************)
Limb == 2^16

\* conversion int -> size_t (sign extension, value modulo 2^64)
ToSizeT(v) ==
    LET ext == IF v < 0 THEN Limb - 1 ELSE 0
    IN  <<v % Limb, (v \div Limb) % Limb, ext, ext>>

\* static_cast<int>(size_t): the low 32 bits, two's complement
ToInt(s) ==
    IF s[2] >= Limb \div 2 THEN (s[2] - Limb) * Limb + s[1]
                           ELSE s[2] * Limb + s[1]

\* size_t + size_t, modulo 2^64
AddSizeT(a, b) ==
    LET s1 == a[1] + b[1]
        s2 == a[2] + b[2] + (s1 \div Limb)
        s3 == a[3] + b[3] + (s2 \div Limb)
        s4 == a[4] + b[4] + (s3 \div Limb)
    IN  <<s1 % Limb, s2 % Limb, s3 % Limb, s4 % Limb>>

\* unsigned comparison a > b of two size_t
GreaterSizeT(a, b) ==
    \E i \in 1..4 : a[i] > b[i] /\ \A j \in (i+1)..4 : a[j] = b[j]

\* std::min(a, n) of a size_t a and a small non-negative count n, as an int
MinSizeT(a, n) == IF GreaterSizeT(a, ToSizeT(n)) THEN n ELSE ToInt(a)

(***************************************************************************)
(* <cstdlib>/<cstring>/<cstdio> functions the class calls.                 *)
(***************************************************************************)
\* isspace in the "C" locale: \t \n \v \f \r and space
isspace(c) == c \in {9, 10, 11, 12, 13, 32}

isdigit(c) == c \in 48..57

\* the C string held in a char array: the bytes before the first NUL
RECURSIVE CStr(_)
CStr(a) ==
    IF a = <<>> \/ Head(a) = 0 THEN <<>> ELSE <<Head(a)>> \o CStr(Tail(a))

\* strncpy(dst, src, n) into a zeroed dst: the C string of the first n bytes
\* of src, padded with NUL up to n bytes
strncpy(src, n) ==
    LET s == CStr(SubSeq(src, 1, n))
    IN  s \o [i \in 1..(n - Len(s)) |-> 0]

RECURSIVE SkipSpace(_)
SkipSpace(s) ==
    IF s # <<>> /\ isspace(Head(s)) THEN SkipSpace(Tail(s)) ELSE s

RECURSIVE Digits(_, _)
Digits(s, acc) ==
    IF s # <<>> /\ isdigit(Head(s))
    THEN Digits(Tail(s), acc * 10 + (Head(s) - 48))
    ELSE acc

\* atoi without the sign: white space, then the decimal digits
atoi_NoSign(str) == Digits(SkipSpace(CStr(str)), 0)

\* atoi: skip white space, take one optional sign, then the decimal digits
atoi(str) ==
    LET s == SkipSpace(CStr(str))
    IN  IF s # <<>> /\ Head(s) = 45 THEN 0 - Digits(Tail(s), 0)
        ELSE IF s # <<>> /\ Head(s) = 43 THEN Digits(Tail(s), 0)
        ELSE Digits(s, 0)

RECURSIVE Decimal(_)
Decimal(n) ==
    IF n < 10 THEN <<48 + n>> ELSE Decimal(n \div 10) \o <<48 + (n % 10)>>

\* "%04d" in place of "%4d": padded with zeros
sprintf4d_ZeroPadded(v) ==
    LET txt == Decimal(IF v < 0 THEN 0 - v ELSE v)
        pad == [i \in 1..(header - Len(txt) - (IF v < 0 THEN 1 ELSE 0)) |-> 48]
    IN  (IF v < 0 THEN <<45>> ELSE <<>>) \o pad \o txt

\* the characters sprintf(buf, "%4d", v) produces (before the final NUL):
\* sign and digits, padded on the left with spaces to at least 4 characters
sprintf4d(v) ==
    LET txt == IF v < 0 THEN <<45>> \o Decimal(0 - v) ELSE Decimal(v)
    IN  [i \in 1..(header - Len(txt)) |-> 32] \o txt

(***************************************************************************)
(* The member functions, as functions of the object (data, bodyLength_).   *)
(***************************************************************************)
\* memcpy(data + at, src, n): the first n bytes of src written at data[at..]
memcpy(d, at, src, n) ==
    [i \in at..(at + n - 1) |-> src[i - at + 1]] @@ d

\* the bytes data[from .. from+n) as a sequence
Slice(d, from, n) == [i \in 1..n |-> d[from + i - 1]]

\* getNewBodyLength without the cap
getNewBodyLength_NoCap(message) == ToSizeT(Len(message))

\* size_t getNewBodyLength(std::string &message)
getNewBodyLength(message) ==
    LET newLength == ToSizeT(Len(message))
    IN  IF GreaterSizeT(newLength, ToSizeT(maxBytes)) THEN ToSizeT(maxBytes)
        ELSE newLength

\* void encodeHeader(): the new contents of data
encodeHeader(d, n) ==
    LET new_header == sprintf4d(ToInt(n)) \o <<0>>
    IN  memcpy(d, 0, new_header, header)

\* decodeHeader with >= in place of >
decodeHeader_GreaterEqual(d, n) ==
    LET new_header == strncpy(Slice(d, 0, header), header) \o <<0>>
        headerValue == atoi(new_header)
    IN  IF headerValue >= maxBytes
        THEN [ok |-> FALSE, bodyLength |-> ToSizeT(0)]
        ELSE [ok |-> TRUE, bodyLength |-> ToSizeT(headerValue)]

\* decodeHeader without bodyLength_ = 0 on the failing path
decodeHeader_NoReset(d, n) ==
    LET new_header == strncpy(Slice(d, 0, header), header) \o <<0>>
        headerValue == atoi(new_header)
    IN  IF headerValue > maxBytes
        THEN [ok |-> FALSE, bodyLength |-> n]
        ELSE [ok |-> TRUE, bodyLength |-> ToSizeT(headerValue)]

\* bool decodeHeader(): the value returned and the new bodyLength_
decodeHeader(d, n) ==
    LET new_header == strncpy(Slice(d, 0, header), header) \o <<0>>
        headerValue == atoi(new_header)
    IN  IF headerValue > maxBytes
        THEN [ok |-> FALSE, bodyLength |-> ToSizeT(0)]
        ELSE [ok |-> TRUE, bodyLength |-> ToSizeT(headerValue)]

\* int length = header + bodyLength_ (in getData): the sum is a size_t,
\* converted to int
DataLength(n) == ToInt(AddSizeT(ToSizeT(header), n))

\* std::string getData(): the possible outcomes.  The count handed to
\* std::string(const char*, size_type) is the int length converted back to
\* size_type; a negative length becomes a count above max_size(), for which
\* the library throws std::length_error ([string.require]), while the
\* range [data, data+count) it was promised does not exist (undefined).
getData(d, n) ==
    LET length == DataLength(n)
    IN  IF length < 0
        THEN {[exc |-> "length_error", bytes |-> <<>>],
              [exc |-> "undefined", bytes |-> <<>>]}
        ELSE IF length > Capacity
        THEN {[exc |-> "undefined", bytes |-> <<>>]}
        ELSE {[exc |-> "none", bytes |-> Slice(d, 0, length)]}

\* std::string::substr(pos, count) of dataStr, count a size_t
substr(dataStr, pos, count) ==
    IF pos > Len(dataStr)
    THEN [exc |-> "out_of_range", bytes |-> <<>>]
    ELSE [exc |-> "none",
          bytes |-> SubSeq(dataStr, pos + 1,
                           pos + MinSizeT(count, Len(dataStr) - pos))]

\* std::string getBody(): the possible outcomes
getBody(d, n) ==
    {IF dataStr.exc # "none" THEN dataStr ELSE substr(dataStr.bytes, header, n)
        : dataStr \in getData(d, n)}

\* the text "Message recieved: " of printMessage
Prefix ==
    <<77, 101, 115, 115, 97, 103, 101, 32,
      114, 101, 99, 105, 101, 118, 101, 100, 58, 32>>

\* void printMessage(): the possible outcomes; bytes is the line written to
\* std::cout (std::endl writes the newline)
printMessage(d, n) ==
    {IF message.exc # "none" THEN message
     ELSE [exc |-> "none", bytes |-> Prefix \o message.bytes \o <<10>>]
        : message \in getData(d, n)}

\* Message(std::string message) run on storage holding d0: the new object
MessageString(d0, message) ==
    LET n  == getNewBodyLength(message)
        d1 == encodeHeader(d0, n)
    IN  [data |-> memcpy(d1, header, message, ToInt(n)), bodyLength |-> n]

(***************************************************************************)
(* Inputs.                                                                 *)
(***************************************************************************)
\* what the storage of a new object may hold before the constructor runs
\* (data has no initializer): every byte NUL, or every byte '9'
Uninitialized == {[i \in 0..(Capacity - 1) |-> g] : g \in {0, 57}}

\* byte values payloads are made of: 'a', NUL, space, '1', 0xC8
PayloadBytes == <<97, 0, 32, 49, 200>>

\* the payload of length len with pattern k; the bytes past the capacity of
\* a body are 'Z', which occurs nowhere else
Payload(len, k) ==
    [i \in 1..len |->
        IF i > maxBytes THEN 90
        ELSE PayloadBytes[((i * k) % Len(PayloadBytes)) + 1]]

PayloadLengths ==
    (0..SmallLen) \cup ((maxBytes - 1)..(maxBytes + 1))

Payloads == {Payload(len, k) : len \in PayloadLengths, k \in 1..NumPatterns}

\* header fields a peer may put on the wire
Headers ==
    { <<57, 57, 57, 57>>,      \* "9999"
      <<32, 53, 49, 51>>,      \* " 513"
      <<32, 53, 49, 50>>,      \* " 512"
      <<48, 53, 49, 50>>,      \* "0512"
      <<32, 32, 32, 48>>,      \* "   0"
      <<32, 32, 32, 55>>,      \* "   7"
      <<45, 49, 50, 51>>,      \* "-123"
      <<32, 32, 45, 52>>,      \* "  -4"
      <<32, 32, 45, 53>>,      \* "  -5"
      <<45, 32, 49, 32>>,      \* "- 1 "
      <<43, 49, 50, 32>>,      \* "+12 "
      <<43, 45, 49, 32>>,      \* "+-1 "
      <<97, 98, 99, 100>>,     \* "abcd"
      <<49, 50, 97, 98>>,      \* "12ab"
      <<57, 57, 57, 97>>,      \* "999a"
      <<9, 10, 49, 50>>,       \* "\t\n12"
      <<49, 0, 50, 51>>,       \* "1\0" "23"
      <<32, 32, 32, 32>> }     \* "    "

(***************************************************************************)
(* State.                                                                  *)
(***************************************************************************)
VARIABLES
    data,         \* char data[header + maxBytes], indexed 0..Capacity-1
    bodyLength_,  \* size_t bodyLength_
    ret,          \* the last operation run on the object and its outcome
    rejected,     \* decodeHeader returned false and no bytes arrived since
    sent          \* the payload whose frame the transport delivered last

vars == <<data, bodyLength_, ret, rejected, sent>>

NoPayload == [has |-> FALSE, payload |-> <<>>]

\* op: the operation; exc: the exception it ended with, or "none"; ok: the
\* bool returned; bytes: the string returned, or written to std::cout;
\* len: the size_t returned
Outcome(op, exc, ok, bytes, len) ==
    [op |-> op, exc |-> exc, ok |-> ok, bytes |-> bytes, len |-> len]

\* the objects Message(p) constructs, per contents of the raw storage
Constructed ==
    [d0 \in Uninitialized, p \in Payloads |-> MessageString(d0, p)]

\* the bytes the transport sends for payload p: getData() of Message(p)
FullView ==
    [p \in Payloads |->
        LET m == Constructed[CHOOSE d0 \in Uninitialized : TRUE, p]
        IN  (CHOOSE r \in getData(m.data, m.bodyLength) : TRUE).bytes]

(***************************************************************************)
(* Operations.                                                             *)
(***************************************************************************)
\* Message() : bodyLength_(0) {}
Message ==
    /\ data' \in Uninitialized
    /\ bodyLength_' = ToSizeT(0)
    /\ ret' = Outcome("Message", "none", TRUE, <<>>, ToSizeT(0))
    /\ rejected' = FALSE
    /\ sent' = NoPayload

\* Message(std::string message)
MessageFromString ==
    \E d0 \in Uninitialized, p \in Payloads :
        /\ data' = Constructed[d0, p].data
        /\ bodyLength_' = Constructed[d0, p].bodyLength
        /\ ret' = Outcome("MessageString", "none", TRUE, p, ToSizeT(0))
        /\ rejected' = FALSE
        /\ sent' = NoPayload

\* the transport writes received bytes to the front of the buffer: a frame
\* sent by a peer's Message(p), or a bare header field
Receive ==
    /\ \/ \E p \in Payloads :
            /\ data' = memcpy(data, 0, FullView[p], Len(FullView[p]))
            /\ sent' = [has |-> TRUE, payload |-> p]
       \/ \E h \in Headers :
            /\ data' = memcpy(data, 0, h, header)
            /\ sent' = NoPayload
    /\ ret' = Outcome("Receive", "none", TRUE, <<>>, ToSizeT(0))
    /\ rejected' = FALSE
    /\ UNCHANGED bodyLength_

EncodeHeader ==
    /\ data' = encodeHeader(data, bodyLength_)
    /\ ret' = Outcome("encodeHeader", "none", TRUE, <<>>, ToSizeT(0))
    /\ sent' = NoPayload
    /\ UNCHANGED <<bodyLength_, rejected>>

DecodeHeader ==
    LET r == decodeHeader(data, bodyLength_)
    IN  /\ bodyLength_' = r.bodyLength
        /\ ret' = Outcome("decodeHeader", "none", r.ok, <<>>, ToSizeT(0))
        /\ rejected' = (rejected \/ ~r.ok)
        /\ UNCHANGED <<data, sent>>

GetData ==
    \E r \in getData(data, bodyLength_) :
        /\ ret' = Outcome("getData", r.exc, TRUE, r.bytes, ToSizeT(0))
        /\ UNCHANGED <<data, bodyLength_, rejected, sent>>

GetBody ==
    \E r \in getBody(data, bodyLength_) :
        /\ ret' = Outcome("getBody", r.exc, TRUE, r.bytes, ToSizeT(0))
        /\ UNCHANGED <<data, bodyLength_, rejected, sent>>

\* size_t getBodyLength()
GetBodyLength ==
    /\ ret' = Outcome("getBodyLength", "none", TRUE, <<>>, bodyLength_)
    /\ UNCHANGED <<data, bodyLength_, rejected, sent>>

PrintMessage ==
    \E r \in printMessage(data, bodyLength_) :
        /\ ret' = Outcome("printMessage", r.exc, TRUE, r.bytes, ToSizeT(0))
        /\ UNCHANGED <<data, bodyLength_, rejected, sent>>

Init ==
    /\ data \in Uninitialized
    /\ bodyLength_ = ToSizeT(0)
    /\ ret = Outcome("Message", "none", TRUE, <<>>, ToSizeT(0))
    /\ rejected = FALSE
    /\ sent = NoPayload

Next ==
    \/ Message
    \/ MessageFromString
    \/ Receive
    \/ EncodeHeader
    \/ DecodeHeader
    \/ GetData
    \/ GetBody
    \/ GetBodyLength
    \/ PrintMessage

Spec == Init /\ [][Next]_vars

(***************************************************************************)
(* Properties.                                                             *)
(***************************************************************************)
\* the 4 header bytes of the buffer
HeaderField == Slice(data, 0, header)

Zero == ToSizeT(0)

\* bodyLength_ <= maxBytes, as an unsigned comparison
LengthInRange == ~GreaterSizeT(bodyLength_, ToSizeT(maxBytes))

\* n in 0..999 as a 4-character field: decimal, right-justified, padded on
\* the left with spaces
RightJustified(n) ==
    << 32,
       IF n >= 100 THEN 48 + (n \div 100) ELSE 32,
       IF n >= 10 THEN 48 + ((n \div 10) % 10) ELSE 32,
       48 + (n % 10) >>

\* C1: bodyLength <= MAX_BODY_BYTES (512) holds in every reachable state of
\* a Frame: after default construction, after construction from a payload
\* of any length, and after decodeHeader on arbitrary header bytes.
C1_BodyLengthBounded == LengthInRange

\* C2: round trip.  For a payload p of at most 512 bytes, when the full view
\* of Message(p) has been placed in the buffer and decodeHeader has run,
\* decodeHeader returned true, bodyLength is len(p) and the body view is p.
C2_RoundTrip ==
    (ret.op = "decodeHeader" /\ sent.has /\ Len(sent.payload) <= maxBytes) =>
        /\ ret.ok
        /\ bodyLength_ = ToSizeT(Len(sent.payload))
        /\ \A r \in getBody(data, bodyLength_) :
              r.exc = "none" /\ r.bytes = sent.payload

\* a 511-byte payload holding NUL bytes has made the round trip into a
\* buffer whose last byte still holds what was there before
C2_Witness ==
    /\ ret.op = "decodeHeader" /\ ret.ok
    /\ sent.has /\ Len(sent.payload) = maxBytes - 1
    /\ \E i \in 1..Len(sent.payload) : sent.payload[i] = 0
    /\ data[Capacity - 1] = 57

\* C3: truncation.  Message(p) with len(p) > 512 does not fail and gives
\* bodyLength 512, the header " 512" and the first 512 bytes of p as body;
\* the bytes of p past index 511 are nowhere in the frame, and nothing is
\* written outside the buffer.
C3_Truncation ==
    (ret.op = "MessageString" /\ Len(ret.bytes) > maxBytes) =>
        /\ ret.exc = "none"
        /\ bodyLength_ = ToSizeT(maxBytes)
        /\ DOMAIN data = 0..(Capacity - 1)
        /\ HeaderField = <<32, 53, 49, 50>>
        /\ Slice(data, header, maxBytes) = SubSeq(ret.bytes, 1, maxBytes)
        /\ \A i \in DOMAIN data : data[i] # 90
        /\ \A r \in getBody(data, bodyLength_) :
              r.exc = "none" /\ r.bytes = SubSeq(ret.bytes, 1, maxBytes)

\* a frame has been constructed from a 513-byte payload ending in 'Z'
C3_Witness ==
    /\ ret.op = "MessageString"
    /\ Len(ret.bytes) = maxBytes + 1
    /\ ret.bytes[maxBytes + 1] = 90
    /\ bodyLength_ = ToSizeT(maxBytes)

\* C4: decode rejection.  After decodeHeader on a header whose parsed value
\* is above 512 it has returned false and bodyLength is 0; on a header whose
\* parsed value is in 0..512 it has returned true and bodyLength is that
\* value.  It ends in no other way.
C4_DecodeRejection ==
    ret.op = "decodeHeader" =>
        LET parsed == atoi(HeaderField)
        IN  /\ ret.exc = "none"
            /\ parsed > maxBytes => (~ret.ok /\ bodyLength_ = Zero)
            /\ parsed \in 0..maxBytes =>
                  (ret.ok /\ bodyLength_ = ToSizeT(parsed) /\ LengthInRange)

\* decodeHeader has rejected the header " 513"
C4_Witness ==
    /\ ret.op = "decodeHeader"
    /\ HeaderField = <<32, 53, 49, 51>>
    /\ ~ret.ok
    /\ bodyLength_ = Zero

\* C5: header wire format.  With bodyLength in 0..512, encodeHeader writes
\* bytes [0,4) with the decimal bodyLength, right-justified and padded on
\* the left with spaces, and leaves the body region and bodyLength as they
\* were.
C5_HeaderFormat ==
    [][(ret'.op = "encodeHeader" /\ LengthInRange) =>
          /\ Slice(data', 0, header) = RightJustified(ToInt(bodyLength_))
          /\ DOMAIN data' = DOMAIN data
          /\ \A i \in header..(Capacity - 1) : data'[i] = data[i]
          /\ bodyLength_' = bodyLength_]_vars

\* encodeHeader has written "   7" for bodyLength 7
C5_Witness ==
    /\ ret.op = "encodeHeader"
    /\ bodyLength_ = ToSizeT(7)
    /\ HeaderField = <<32, 32, 32, 55>>

\* C6: view lengths.  After construction from a payload and after any
\* decodeHeader, getData returns the 4 + bodyLength bytes at [0, 4 +
\* bodyLength) and getBody the bodyLength bytes at [4, 4 + bodyLength).
C6_ViewLengths ==
    ret.op \in {"MessageString", "decodeHeader"} =>
        /\ LengthInRange
        /\ \A r \in getData(data, bodyLength_) :
              /\ r.exc = "none"
              /\ r.bytes = Slice(data, 0, header + ToInt(bodyLength_))
        /\ \A r \in getBody(data, bodyLength_) :
              /\ r.exc = "none"
              /\ r.bytes = Slice(data, header, ToInt(bodyLength_))

\* C7: buffer bounds.  No write lands outside the buffer, the length
\* getData passes to the string is within 0..516, and neither view ends in
\* an exception or an access outside the buffer.
C7_BufferBounds ==
    /\ DOMAIN data = 0..(Capacity - 1)
    /\ DataLength(bodyLength_) \in 0..Capacity
    /\ \A r \in getData(data, bodyLength_) \cup getBody(data, bodyLength_) :
          r.exc = "none"

\* the white space and digits reading of the header that C8 describes: no
\* sign is read
UnsignedPrefix == Digits(SkipSpace(CStr(HeaderField)), 0)

\* C8 as stated: decodeHeader reads the header by skipping white space and
\* reading digits up to the first non-digit; a header with no digit after
\* the white space decodes to 0 (true, empty body), a numeric prefix decodes
\* to its value.  Stated for the states whose bodyLength is within range,
\* which leaves the negative headers of C1 aside.
C8_AsStated ==
    (ret.op = "decodeHeader" /\ LengthInRange) =>
        /\ UnsignedPrefix <= maxBytes =>
              (ret.ok /\ bodyLength_ = ToSizeT(UnsignedPrefix))
        /\ UnsignedPrefix > maxBytes => ~ret.ok

\* C8 amended: decodeHeader skips white space, reads one optional sign and
\* then digits up to the first non-digit.  No digit there: true, bodyLength
\* 0, empty body view.  A prefix without '-' of value at most 512: true with
\* that bodyLength; above 512: false, bodyLength 0.  A prefix with '-':
\* true, bodyLength the negative value converted to size_t.
C8_SignedPrefix ==
    ret.op = "decodeHeader" =>
        LET s      == SkipSpace(CStr(HeaderField))
            signed == s # <<>> /\ Head(s) \in {43, 45}
            minus  == s # <<>> /\ Head(s) = 45
            digits == IF signed THEN Tail(s) ELSE s
            value  == Digits(digits, 0)
        IN  /\ (digits = <<>> \/ ~isdigit(Head(digits))) =>
                  /\ ret.ok
                  /\ bodyLength_ = Zero
                  /\ getBody(data, bodyLength_) =
                        {[exc |-> "none", bytes |-> <<>>]}
            /\ (~minus /\ value <= maxBytes) =>
                  (ret.ok /\ bodyLength_ = ToSizeT(value))
            /\ (~minus /\ value > maxBytes) =>
                  (~ret.ok /\ bodyLength_ = Zero)
            /\ minus => (ret.ok /\ bodyLength_ = ToSizeT(0 - value))

\* decodeHeader has read "+12 " as 12
C8_Witness ==
    /\ ret.op = "decodeHeader"
    /\ HeaderField = <<43, 49, 50, 32>>
    /\ ret.ok
    /\ bodyLength_ = ToSizeT(12)

\* a step of one of the object's own operations: no construction, no bytes
\* from the transport
OwnOperation == ret'.op \notin {"Message", "MessageString", "Receive"}

\* C9 as stated: once decodeHeader has returned false, and while no bytes
\* arrive, every operation keeps bodyLength at 0, decodeHeader leaves the
\* buffer alone and no decodeHeader returns true.
C9_AsStated ==
    [][(rejected /\ OwnOperation) =>
          /\ bodyLength_' = Zero
          /\ ret'.op = "decodeHeader" => (data' = data /\ ~ret'.ok)]_vars

\* C9 amended: once decodeHeader has returned false, and while no bytes
\* arrive, every operation keeps bodyLength at 0 and decodeHeader leaves the
\* buffer alone; a decodeHeader right after a failed one fails again, and
\* decodeHeader returns true only once encodeHeader has rewritten the
\* header as "   0".
C9_RejectedUntilRewritten ==
    [][(rejected /\ OwnOperation) =>
          /\ bodyLength_' = Zero
          /\ ret'.op = "decodeHeader" =>
                /\ data' = data
                /\ ret'.ok => HeaderField = <<32, 32, 32, 48>>
                /\ (ret.op = "decodeHeader" /\ ~ret.ok) => ~ret'.ok]_vars

\* after a rejection and with no new bytes, decodeHeader has returned true
C9_Witness ==
    /\ rejected
    /\ ret.op = "decodeHeader"
    /\ ret.ok
    /\ bodyLength_ = Zero

\* C10: what printMessage writes after "Message recieved: " is the body
\* view: the bodyLength bytes after the header, without the header.
C10_PrintsBody ==
    (ret.op = "printMessage" /\ ret.exc = "none" /\ LengthInRange) =>
        \A r \in getBody(data, bodyLength_) :
            ret.bytes = Prefix \o r.bytes \o <<10>>

====
